---- MODULE Spec2Model ----
(***************************************************************************)
(* Maintenance scripts over the SQLite "memories" table:                   *)
(*   cleanup_invalid_memories.py  plan / confirm / DELETE / commit         *)
(*   inspect_backup.py            scope counts and sample records          *)
(*   check_real_memories.py       GUID / file-path partition               *)
(*   check_memory_ids.py          duplicate id scan                        *)
(* Strings are sequences of one-character strings, so that the regular     *)
(* expression, the SQL LIKE patterns and str.lower() are computed          *)
(* character by character.                                                 *)
(***************************************************************************)
EXTENDS Integers, Sequences, FiniteSets, TLC

\* ------------------------------------------------------------ bounds
\* Largest number of rows of the memories table in an initial state.
MaxRecords == 2
\* Largest number of rows of a backup table read by the duplicate scan.
MaxRows == 3
\* Largest number of writes by other connections in one behaviour.
MaxWrites == 2

\* ------------------------------------------------------------ characters
Digits == {"0", "1", "2", "3", "4", "5", "6", "7", "8", "9"}
LowerHex == {"a", "b", "c", "d", "e", "f"}
UpperHex == {"A", "B", "C", "D", "E", "F"}
\* The character class [0-9a-fA-F] of guid_pattern.
HexClass == Digits \cup LowerHex \cup UpperHex

\* n copies of x.
Rep(x, n) == [i \in 1..n |-> x]

\* guid_pattern between ^ and $: one atom per character consumed.
GuidAtoms ==
    Rep("hex", 8) \o <<"-">> \o Rep("hex", 4) \o <<"-">> \o Rep("hex", 4)
        \o <<"-">> \o Rep("hex", 4) \o <<"-">> \o Rep("hex", 12)

AtomMatches(atom, c) == IF atom = "hex" THEN c \in HexClass ELSE c = atom

\* Python's $ without re.MULTILINE, tried at position i (the next unread
\* character): the end of the string, or just before a final newline.
DollarAt(s, i) == i = Len(s) + 1 \/ (i = Len(s) /\ s[i] = "\n")

\* guid_pattern.match(s) is not None.
GuidPatternMatch(s) ==
    /\ Len(s) >= Len(GuidAtoms)
    /\ \A i \in 1..Len(GuidAtoms) : AtomMatches(GuidAtoms[i], s[i])
    /\ DollarAt(s, Len(GuidAtoms) + 1)

\* str.lower() on the characters the prompt's answers use.
LowerChar(c) ==
    CASE c = "A" -> "a" [] c = "B" -> "b" [] c = "C" -> "c"
      [] c = "D" -> "d" [] c = "E" -> "e" [] c = "F" -> "f"
      [] c = "N" -> "n" [] c = "S" -> "s" [] c = "Y" -> "y"
      [] OTHER -> c
Lower(s) == [i \in 1..Len(s) |-> LowerChar(s[i])]

\* SQLite LIKE: _ is any one character, % any run of characters, every
\* other pattern character stands for itself (no ESCAPE clause is given, so
\* a backslash is an ordinary character; letters compare without case).
RECURSIVE LikeMatch(_, _)
LikeMatch(p, s) ==
    IF p = <<>> THEN s = <<>>
    ELSE IF Head(p) = "%"
         THEN LikeMatch(Tail(p), s) \/ (s # <<>> /\ LikeMatch(p, Tail(s)))
    ELSE /\ s # <<>>
         /\ (Head(p) = "_" \/ LowerChar(Head(p)) = LowerChar(Head(s)))
         /\ LikeMatch(Tail(p), Tail(s))

\* '________-____-____-____-____________'
ShapePattern ==
    Rep("_", 8) \o <<"-">> \o Rep("_", 4) \o <<"-">> \o Rep("_", 4)
        \o <<"-">> \o Rep("_", 4) \o <<"-">> \o Rep("_", 12)
\* '%/%'
SlashPattern == <<"%", "/", "%">>
\* '%\\%' in the Python source is the SQL text '%\%'
BackslashPattern == <<"%", "\\", "%">>

\* The WHERE clause of the DELETE statement.
DeleteWhere(id) ==
    \/ ~LikeMatch(ShapePattern, id)
    \/ LikeMatch(SlashPattern, id)
    \/ LikeMatch(BackslashPattern, id)

\* ------------------------------------------------------------ identifiers
\* "a1b2c3d4-e5f6-7890-abcd-ef1234567890"
GuidLower ==
    <<"a", "1", "b", "2", "c", "3", "d", "4", "-", "e", "5", "f", "6", "-",
      "7", "8", "9", "0", "-", "a", "b", "c", "d", "-",
      "e", "f", "1", "2", "3", "4", "5", "6", "7", "8", "9", "0">>
\* "A1B2C3D4-E5F6-7890-ABCD-EF1234567890"
GuidUpper ==
    <<"A", "1", "B", "2", "C", "3", "D", "4", "-", "E", "5", "F", "6", "-",
      "7", "8", "9", "0", "-", "A", "B", "C", "D", "-",
      "E", "F", "1", "2", "3", "4", "5", "6", "7", "8", "9", "0">>
\* "C:\proj\file.py"
WindowsPath ==
    <<"C", ":", "\\", "p", "r", "o", "j", "\\", "f", "i", "l", "e", ".", "p", "y">>
\* "src/a.py"
UnixPath == <<"s", "r", "c", "/", "a", ".", "p", "y">>

\* s with its i-th character replaced by c.
ReplaceAt(s, i, c) == [s EXCEPT ![i] = c]

\* The ids a row may carry: the column is free text, nothing constrains it.
IdPool ==
    { GuidLower, GuidUpper, WindowsPath, UnixPath, <<>>,
      GuidLower \o <<"\n">>,                 \* a final newline
      GuidLower \o <<"x">>,                  \* one extra trailing character
      <<"x">> \o GuidLower,                  \* one extra leading character
      SubSeq(GuidLower, 1, Len(GuidLower) - 1),
      ReplaceAt(GuidLower, 1, "g"),          \* the shape, not hexadecimal
      ReplaceAt(GuidLower, 9, "0"),          \* a hyphen replaced
      ReplaceAt(GuidLower, 1, "/") }         \* the shape, with a slash

\* The ids used where the payloads vary.
SmallIdPool == { GuidLower, WindowsPath }

Scopes == {"Note", "ArchitecturalDecision"}
Contents == {"x", "y"}

\* ------------------------------------------------------------ json.loads
\* A payload is a sequence of JSON tokens; json.loads is the parser over
\* them. A string token stands for the characters of the Python string.
StrValue ==
    ("\"fields\"" :> <<"f", "i", "e", "l", "d", "s">>)
        @@ ("\"a\"" :> <<"a">>) @@ ("\"ab\"" :> <<"a", "b">>)
NumTokens == {"1"}

JNull == [t |-> "null", s |-> <<>>, keys |-> <<>>, items |-> <<>>]
JBool == [t |-> "bool", s |-> <<>>, keys |-> <<>>, items |-> <<>>]
JNum == [t |-> "num", s |-> <<>>, keys |-> <<>>, items |-> <<>>]
JStr(chars) == [t |-> "str", s |-> chars, keys |-> <<>>, items |-> <<>>]
JArr(items) == [t |-> "arr", s |-> <<>>, keys |-> <<>>, items |-> items]
\* A dict: keys in insertion order, items[k] the value of keys[k].
JObj(keys, items) == [t |-> "obj", s |-> <<>>, keys |-> keys, items |-> items]

ParseFail == [ok |-> FALSE, val |-> JNull, next |-> 0]
ParseOk(v, n) == [ok |-> TRUE, val |-> v, next |-> n]

\* d[key] = v on a dict: a key already present keeps its place.
DictSet(d, key, v) ==
    IF \E k \in 1..Len(d.keys) : d.keys[k] = key
    THEN JObj(d.keys,
              [k \in 1..Len(d.keys) |-> IF d.keys[k] = key THEN v ELSE d.items[k]])
    ELSE JObj(Append(d.keys, key), Append(d.items, v))

RECURSIVE ParseValue(_, _), ParseElements(_, _, _), ParseMembers(_, _, _)
ParseValue(toks, i) ==
    IF i > Len(toks) THEN ParseFail
    ELSE LET tk == toks[i] IN
         CASE tk \in DOMAIN StrValue -> ParseOk(JStr(StrValue[tk]), i + 1)
           [] tk \in NumTokens -> ParseOk(JNum, i + 1)
           [] tk = "null" -> ParseOk(JNull, i + 1)
           [] tk \in {"true", "false"} -> ParseOk(JBool, i + 1)
           [] tk = "[" ->
                IF i + 1 <= Len(toks) /\ toks[i + 1] = "]"
                THEN ParseOk(JArr(<<>>), i + 2)
                ELSE ParseElements(toks, i + 1, <<>>)
           [] tk = "{" ->
                IF i + 1 <= Len(toks) /\ toks[i + 1] = "}"
                THEN ParseOk(JObj(<<>>, <<>>), i + 2)
                ELSE ParseMembers(toks, i + 1, JObj(<<>>, <<>>))
           [] OTHER -> ParseFail
ParseElements(toks, i, acc) ==
    LET r == ParseValue(toks, i) IN
    IF ~r.ok \/ r.next > Len(toks) THEN ParseFail
    ELSE IF toks[r.next] = "," THEN ParseElements(toks, r.next + 1, Append(acc, r.val))
    ELSE IF toks[r.next] = "]" THEN ParseOk(JArr(Append(acc, r.val)), r.next + 1)
    ELSE ParseFail
ParseMembers(toks, i, d) ==
    IF i + 1 > Len(toks) \/ toks[i] \notin DOMAIN StrValue \/ toks[i + 1] # ":"
    THEN ParseFail
    ELSE LET r == ParseValue(toks, i + 2) IN
         IF ~r.ok \/ r.next > Len(toks) THEN ParseFail
         ELSE IF toks[r.next] = ","
              THEN ParseMembers(toks, r.next + 1, DictSet(d, StrValue[toks[i]], r.val))
         ELSE IF toks[r.next] = "}"
              THEN ParseOk(DictSet(d, StrValue[toks[i]], r.val), r.next + 1)
         ELSE ParseFail

\* json.loads(json_data): ok is FALSE where it raises (no value, or text
\* after the value).
JsonLoads(toks) ==
    LET r == ParseValue(toks, 1) IN
    IF r.ok /\ r.next = Len(toks) + 1 THEN r ELSE ParseFail

\* The payloads a row may carry.
PayloadFields ==
    <<"{", "\"fields\"", ":", "{", "\"a\"", ":", "1", ",", "\"ab\"", ":", "\"a\"", "}", "}">>
Payloads ==
    { PayloadFields,
      <<"{", "\"a\"", ":", "1", "}">>,
      <<"{", "}">>,
      <<"{", "not", "json">>,
      <<>>,
      <<"{", "}", "}">>,
      <<"[", "]">>,
      <<"[", "\"fields\"", "]">>,
      <<"\"fields\"">>,
      <<"\"a\"">>,
      <<"1">>,
      <<"null">>,
      <<"{", "\"fields\"", ":", "1", "}">>,
      <<"{", "\"fields\"", ":", "[", "\"a\"", ",", "\"ab\"", "]", "}">>,
      <<"{", "\"fields\"", ":", "\"ab\"", "}">>,
      <<"{", "\"fields\"", ":", "{", "\"a\"", ":", "1", "}", ",",
        "\"fields\"", ":", "{", "\"ab\"", ":", "1", "}", "}">> }

\* ------------------------------------------------------------ field listing
FieldsKey == <<"f", "i", "e", "l", "d", "s">>

\* needle occurs in hay (Python's `in` on two strings).
IsSubstring(needle, hay) ==
    \E i \in 0..(Len(hay) - Len(needle)) :
        SubSeq(hay, i + 1, i + Len(needle)) = needle

\* Whether `'fields' in data` raises TypeError.
InRaises(data) == data.t \in {"num", "bool", "null"}
\* 'fields' in data, where it does not raise.
FieldsIn(data) ==
    CASE data.t = "obj" -> \E k \in 1..Len(data.keys) : data.keys[k] = FieldsKey
      [] data.t = "arr" ->
            \E k \in 1..Len(data.items) :
                data.items[k].t = "str" /\ data.items[k].s = FieldsKey
      [] data.t = "str" -> IsSubstring(FieldsKey, data.s)
      [] OTHER -> FALSE
\* data['fields'] on a dict that has the key.
FieldsOf(data) ==
    data.items[CHOOSE k \in 1..Len(data.keys) : data.keys[k] = FieldsKey]
\* What `for field_name in fields` yields: a dict's keys, a list's items
\* (shown by their text), a string's characters.
IterNames(fields) ==
    CASE fields.t = "obj" -> fields.keys
      [] fields.t = "arr" -> [k \in 1..Len(fields.items) |-> fields.items[k].s]
      [] fields.t = "str" -> [k \in 1..Len(fields.s) |-> <<fields.s[k]>>]
      [] OTHER -> <<>>

\* The try block over one row's json_data: header is the line "Fields in
\* document:", names the field names printed, failed the line "Could not
\* parse JSON data" of the bare except.
FieldListing(json_data) ==
    LET r == JsonLoads(json_data) IN
    IF ~r.ok THEN [header |-> FALSE, names |-> <<>>, failed |-> TRUE]
    ELSE IF InRaises(r.val) THEN [header |-> FALSE, names |-> <<>>, failed |-> TRUE]
    ELSE IF ~FieldsIn(r.val) THEN [header |-> FALSE, names |-> <<>>, failed |-> FALSE]
    ELSE IF r.val.t # "obj" THEN [header |-> FALSE, names |-> <<>>, failed |-> TRUE]
    ELSE LET fields == FieldsOf(r.val) IN
         IF InRaises(fields) THEN [header |-> TRUE, names |-> <<>>, failed |-> TRUE]
         ELSE [header |-> TRUE, names |-> IterNames(fields), failed |-> FALSE]

\* ------------------------------------------------------------ state
VARIABLES
    store,          \* the memories table as committed: id -> row
    store0,         \* the table when the running script started
    pc,             \* where the running script is
    all_ids,        \* cleanup: the ids fetched by the plan's SELECT
    invalid_count,  \* cleanup: ids that guid_pattern rejected
    response,       \* cleanup: the operator's answer to the prompt
    txn_open,       \* cleanup: the connection holds an uncommitted DELETE
    txn_db,         \* cleanup: the table as that transaction sees it
    rowcount,       \* cleanup: cursor.rowcount
    remaining,      \* cleanup: scope -> count printed after the purge
    scope_counts,   \* inspect: scope -> count
    rows,           \* inspect: the sample rows not yet printed
    shown,          \* inspect: what was printed for each sample row
    guid_records,   \* check_real: (id, scope) pairs with a GUID id
    path_records,   \* check_real: the other (id, scope) pairs
    writes,         \* writes made by other connections
    backup_rows,    \* check_ids: the backup's memories table, row by row
    fetched,        \* check_ids: cursor.fetchall()
    scan_i,         \* check_ids: rows of fetched already scanned
    backup_ids,     \* check_ids: the dict id -> scope
    dup_lines,      \* check_ids: the DUPLICATE ID IN BACKUP lines printed
    unique_total    \* check_ids: the printed total of unique ids

vars ==
    <<store, store0, pc, all_ids, invalid_count, response, txn_open, txn_db, rowcount,
      remaining, scope_counts, rows, shown, guid_records, path_records, writes,
      backup_rows, fetched, scan_i, backup_ids, dup_lines, unique_total>>

cleanupVars == <<all_ids, invalid_count, response, txn_open, txn_db, rowcount, remaining>>
inspectVars == <<scope_counts, rows, shown>>
checkRealVars == <<guid_records, path_records>>
checkIdsVars == <<backup_rows, fetched, scan_i, backup_ids, dup_lines, unique_total>>

\* The empty table, the empty dict.
Empty == <<>>

Row(scope, content, json_data) ==
    [scope |-> scope, content |-> content, json_data |-> json_data]

\* Every table of at most MaxRecords rows, ids from ids (the primary key
\* makes a table a function of the id).
Tables(ids, scopes, contents, payloads) ==
    UNION { [S -> {Row(sc, c, j) : sc \in scopes, c \in contents, j \in payloads}] :
            S \in {T \in SUBSET ids : Cardinality(T) <= MaxRecords} }

\* The values every script starts from.
Locals ==
    /\ all_ids = {}
    /\ invalid_count = 0
    /\ response = <<>>
    /\ txn_open = FALSE
    /\ txn_db = Empty
    /\ rowcount = -1
    /\ remaining = Empty
    /\ scope_counts = Empty
    /\ rows = <<>>
    /\ shown = <<>>
    /\ guid_records = {}
    /\ path_records = {}
    /\ fetched = <<>>
    /\ scan_i = 0
    /\ backup_ids = Empty
    /\ dup_lines = <<>>
    /\ unique_total = -1

Init ==
    /\ store \in Tables(IdPool, Scopes, {"x"}, {PayloadFields})
                    \cup Tables(SmallIdPool, {"Note"}, Contents, Payloads)
    /\ store0 = store
    /\ pc = "idle"
    /\ writes = 0
    /\ backup_rows = <<>>
    /\ Locals

\* ------------------------------------------------------------ SQL helpers
\* The rows of db whose id is in S.
Restrict(db, S) == [id \in S |-> db[id]]

\* Mutant of GroupByScope: COUNT(DISTINCT content) in place of COUNT(*).
GroupByScopeDistinct(db) ==
    [sc \in {db[id].scope : id \in DOMAIN db} |->
        Cardinality({db[id].content : id \in {i \in DOMAIN db : db[i].scope = sc}})]

\* SELECT scope, COUNT(*) FROM memories GROUP BY scope
GroupByScope(db) ==
    [sc \in {db[id].scope : id \in DOMAIN db} |->
        Cardinality({id \in DOMAIN db : db[id].scope = sc})]

\* The table after DELETE FROM memories WHERE <DeleteWhere>.
AfterDelete(db) == Restrict(db, {id \in DOMAIN db : ~DeleteWhere(id)})

\* ------------------------------------------------------------ cleanup_invalid_memories.py
\* The loop over all_ids that counts the ids guid_pattern does not match.
CountInvalid(ids) == Cardinality({id \in ids : ~GuidPatternMatch(id)})

\* Mutant of Confirmed: 'y' in response.lower()
ConfirmedContainsY(r) == \E i \in 1..Len(r) : Lower(r)[i] = "y"

\* response.lower() == 'y'
Confirmed(r) == Lower(r) = <<"y">>

\* What the operator may type at the prompt.
Responses ==
    { <<"y">>, <<"Y">>, <<"n">>, <<>>, <<"y", "e", "s">>, <<" ", "y">> }

\* connect, SELECT id FROM memories, the counting loop, the first print.
CleanupPlan ==
    /\ pc = "idle"
    /\ all_ids' = DOMAIN store
    /\ invalid_count' = CountInvalid(all_ids')
    /\ pc' = IF invalid_count' > 0 THEN "cl_prompt" ELSE "cl_clean"
    /\ UNCHANGED <<store, store0, response, txn_open, txn_db, rowcount, remaining,
                   inspectVars, checkRealVars, checkIdsVars, writes>>

\* input("Delete invalid records? (y/n): ") and the test of the answer; an
\* answer other than y closes the connection.
CleanupAnswer(r) ==
    /\ pc = "cl_prompt"
    /\ response' = r
    /\ pc' = IF Confirmed(r) THEN "cl_delete" ELSE "cl_aborted"
    /\ UNCHANGED <<store, store0, all_ids, invalid_count, txn_open, txn_db, rowcount, remaining,
                   inspectVars, checkRealVars, checkIdsVars, writes>>

\* cursor.execute(DELETE ...): sqlite3 opens a transaction and runs the
\* statement in it; the committed table is untouched until commit.
CleanupDelete ==
    /\ pc = "cl_delete"
    /\ txn_open' = TRUE
    /\ txn_db' = AfterDelete(store)
    /\ rowcount' = Cardinality(DOMAIN store) - Cardinality(DOMAIN txn_db')
    /\ pc' = "cl_commit"
    /\ UNCHANGED <<store, store0, all_ids, invalid_count, response, remaining,
                   inspectVars, checkRealVars, checkIdsVars, writes>>

\* Mutant of CleanupDeleteFail: the rows go one statement at a time, each
\* committed on its own, and the failure comes after the first.
CleanupDeleteFailPartial ==
    /\ pc = "cl_delete"
    /\ \E id \in DOMAIN store :
          /\ DeleteWhere(id)
          /\ store' = [i \in DOMAIN store \ {id} |-> store[i]]
    /\ pc' = "cl_error"
    /\ UNCHANGED <<store0, cleanupVars,
                   inspectVars, checkRealVars, checkIdsVars, writes>>

\* cursor.execute raises (database locked, I/O error): the statement is
\* undone as a whole and the except handler prints the error.
CleanupDeleteFail ==
    /\ pc = "cl_delete"
    /\ pc' = "cl_error"
    /\ UNCHANGED <<store, store0, cleanupVars,
                   inspectVars, checkRealVars, checkIdsVars, writes>>

\* conn.commit() and the "Deleted N invalid records" line.
CleanupCommit ==
    /\ pc = "cl_commit"
    /\ store' = txn_db
    /\ txn_open' = FALSE
    /\ txn_db' = Empty
    /\ pc' = "cl_committed"
    /\ UNCHANGED <<store0, all_ids, invalid_count, response, rowcount, remaining,
                   inspectVars, checkRealVars, checkIdsVars, writes>>

\* conn.commit() raises: the except handler prints the error, the process
\* ends with the transaction open and SQLite rolls it back.
CleanupCommitFail ==
    /\ pc = "cl_commit"
    /\ txn_open' = FALSE
    /\ txn_db' = Empty
    /\ pc' = "cl_error"
    /\ UNCHANGED <<store, store0, all_ids, invalid_count, response, rowcount, remaining,
                   inspectVars, checkRealVars, checkIdsVars, writes>>

\* The remaining records by scope, conn.close(), "Cleanup complete."
CleanupReport ==
    /\ pc = "cl_committed"
    /\ remaining' = GroupByScope(store)
    /\ pc' = "cl_done"
    /\ UNCHANGED <<store, store0, all_ids, invalid_count, response, txn_open, txn_db, rowcount,
                   inspectVars, checkRealVars, checkIdsVars, writes>>

\* ------------------------------------------------------------ inspect_backup.py
\* LIMIT 5 of the sample query.
SampleLimit == 5

Min(a, b) == IF a < b THEN a ELSE b

\* The results SELECT ... LIMIT 5 may give: SampleLimit rows (all of them
\* when there are fewer) in any order, each a copy of the row.
SampleRows(db) ==
    LET k == Min(SampleLimit, Cardinality(DOMAIN db))
        orders == {sq \in [1..k -> DOMAIN db] :
                      \A i, j \in 1..k : i # j => sq[i] # sq[j]}
    IN { [i \in 1..k |-> [id |-> sq[i], scope |-> db[sq[i]].scope,
                          content |-> db[sq[i]].content,
                          json_data |-> db[sq[i]].json_data]] : sq \in orders }

\* What the loop body prints for one sample row: the id, scope and content
\* preview lines, then the try block's lines.
ShownFor(row) ==
    LET l == FieldListing(row.json_data) IN
    [id |-> row.id, scope |-> row.scope, content |-> row.content,
     json_data |-> row.json_data,
     header |-> l.header, names |-> l.names, failed |-> l.failed]

\* connect, the schema query, the count of records by scope.
InspectCount ==
    /\ pc = "idle"
    /\ scope_counts' = GroupByScope(store)
    /\ pc' = "ins_counted"
    /\ UNCHANGED <<store, store0, cleanupVars, rows, shown,
                   checkRealVars, checkIdsVars, writes>>

\* SELECT id, scope, content, json_data FROM memories LIMIT 5
InspectSelect ==
    /\ pc = "ins_counted"
    /\ rows' \in SampleRows(store)
    /\ pc' = "ins_sampling"
    /\ UNCHANGED <<store, store0, cleanupVars, scope_counts, shown,
                   checkRealVars, checkIdsVars, writes>>

\* One pass of the loop over the sample rows.
InspectRecord ==
    /\ pc = "ins_sampling"
    /\ rows # <<>>
    /\ shown' = Append(shown, ShownFor(Head(rows)))
    /\ rows' = Tail(rows)
    /\ UNCHANGED <<store, store0, pc, cleanupVars, scope_counts,
                   checkRealVars, checkIdsVars, writes>>

\* After the loop: the backup_metadata listing, conn.close().
InspectFinish ==
    /\ pc = "ins_sampling"
    /\ rows = <<>>
    /\ pc' = "ins_done"
    /\ UNCHANGED <<store, store0, cleanupVars, inspectVars,
                   checkRealVars, checkIdsVars, writes>>

\* ------------------------------------------------------------ check_real_memories.py
\* SELECT id, scope FROM memories and the loop that splits the rows by
\* guid_pattern, then the prints and conn.close().
CheckRealPartition ==
    /\ pc = "idle"
    /\ guid_records' = {<<id, store[id].scope>> : id \in {i \in DOMAIN store : GuidPatternMatch(i)}}
    /\ path_records' = {<<id, store[id].scope>> : id \in {i \in DOMAIN store : ~GuidPatternMatch(i)}}
    /\ pc' = "cr_done"
    /\ UNCHANGED <<store, store0, cleanupVars, inspectVars, checkIdsVars, writes>>

\* ------------------------------------------------------------ process exit
Finals == {"cl_clean", "cl_aborted", "cl_done", "cl_error", "ins_done", "cr_done"}

\* The script has ended; the next one starts from the table as it is.
Exit ==
    /\ pc \in Finals
    /\ pc' = "idle"
    /\ store0' = store
    /\ all_ids' = {}
    /\ invalid_count' = 0
    /\ response' = <<>>
    /\ txn_open' = FALSE
    /\ txn_db' = Empty
    /\ rowcount' = -1
    /\ remaining' = Empty
    /\ scope_counts' = Empty
    /\ rows' = <<>>
    /\ shown' = <<>>
    /\ guid_records' = {}
    /\ path_records' = {}
    /\ UNCHANGED <<store, checkIdsVars, writes>>

\* ------------------------------------------------------------ other connections
\* The ids and rows another connection writes.
WriterIds == SmallIdPool
WriterRow == Row("Note", "y", PayloadFields)

\* put(record) by another connection: insert, or replace the row of the id.
\* SQLite admits no other writer while a transaction holds the write lock.
OtherPut(id) ==
    /\ ~txn_open
    /\ writes < MaxWrites
    /\ id \in DOMAIN store \/ Cardinality(DOMAIN store) < MaxRecords
    /\ store' = [i \in DOMAIN store \cup {id} |-> IF i = id THEN WriterRow ELSE store[i]]
    /\ store' # store
    /\ writes' = writes + 1
    /\ UNCHANGED <<store0, pc, cleanupVars, inspectVars, checkRealVars, checkIdsVars>>

\* delete(id) by another connection.
OtherDelete(id) ==
    /\ ~txn_open
    /\ writes < MaxWrites
    /\ id \in DOMAIN store
    /\ store' = Restrict(store, DOMAIN store \ {id})
    /\ writes' = writes + 1
    /\ UNCHANGED <<store0, pc, cleanupVars, inspectVars, checkRealVars, checkIdsVars>>

\* ------------------------------------------------------------ check_memory_ids.py
\* backup_ids[id_val] = scope
DictPut(d, k, v) == [i \in DOMAIN d \cup {k} |-> IF i = k THEN v ELSE d[i]]

\* Mutant of DupLine: a line only when the scope differs from the dict's.
DupLineOnScopeChange(seen, id, scope) ==
    IF id \in DOMAIN seen /\ seen[id] # scope
    THEN <<[id |-> id, prev |-> seen[id], scope |-> scope]>>
    ELSE <<>>

\* The line printed for a row whose id is already a key of the dict: the
\* id, the scope the dict holds for it, the row's scope. Nothing otherwise.
DupLine(seen, id, scope) ==
    IF id \in DOMAIN seen
    THEN <<[id |-> id, prev |-> seen[id], scope |-> scope]>>
    ELSE <<>>

\* The rows the backup's table may hold: nothing in the script or its
\* query makes the ids distinct.
BackupTables ==
    UNION { [1..n -> SmallIdPool \X Scopes] : n \in 0..MaxRows }

InitDup ==
    /\ backup_rows \in BackupTables
    /\ store = Empty
    /\ store0 = Empty
    /\ pc = "dup_start"
    /\ writes = 0
    /\ Locals

\* connect, SELECT id, scope FROM memories, cursor.fetchall()
DupSelect ==
    /\ pc = "dup_start"
    /\ fetched' = backup_rows
    /\ pc' = "dup_scan"
    /\ UNCHANGED <<store, store0, cleanupVars, inspectVars, checkRealVars, writes,
                   backup_rows, scan_i, backup_ids, dup_lines, unique_total>>

\* One pass of the loop over the fetched rows.
DupScanRow ==
    /\ pc = "dup_scan"
    /\ scan_i < Len(fetched)
    /\ LET id == fetched[scan_i + 1][1]
           scope == fetched[scan_i + 1][2]
       IN /\ dup_lines' = dup_lines \o DupLine(backup_ids, id, scope)
          /\ backup_ids' = DictPut(backup_ids, id, scope)
    /\ scan_i' = scan_i + 1
    /\ UNCHANGED <<store, store0, pc, cleanupVars, inspectVars, checkRealVars, writes,
                   backup_rows, fetched, unique_total>>

\* After the loop: the total of unique ids, the first five ids in order,
\* conn.close().
DupPrintTotal ==
    /\ pc = "dup_scan"
    /\ scan_i = Len(fetched)
    /\ unique_total' = Cardinality(DOMAIN backup_ids)
    /\ pc' = "dup_done"
    /\ UNCHANGED <<store, store0, cleanupVars, inspectVars, checkRealVars, writes,
                   backup_rows, fetched, scan_i, backup_ids, dup_lines>>

\* ------------------------------------------------------------ specifications
Cleanup ==
    \/ CleanupPlan
    \/ \E r \in Responses : CleanupAnswer(r)
    \/ CleanupDelete
    \/ CleanupDeleteFail
    \/ CleanupCommit
    \/ CleanupCommitFail
    \/ CleanupReport

Inspect == InspectCount \/ InspectSelect \/ InspectRecord \/ InspectFinish

\* One script at a time, no other connection.
Next == Cleanup \/ Inspect \/ CheckRealPartition \/ Exit
Spec == Init /\ [][Next]_vars

\* The scripts, and other connections writing to the table.
NextConc ==
    \/ Next
    \/ \E id \in WriterIds : OtherPut(id)
    \/ \E id \in WriterIds : OtherDelete(id)
SpecConc == Init /\ [][NextConc]_vars

\* The duplicate scan over a backup table.
NextDup == DupSelect \/ DupScanRow \/ DupPrintTotal
SpecDup == InitDup /\ [][NextDup]_vars

\* ------------------------------------------------------------ claims
\* The script is past a commit that succeeded.
Purged == pc \in {"cl_committed", "cl_done"}

\* The 8-4-4-4-12 form: 36 characters, hyphens at 9, 14, 19 and 24 and
\* hexadecimal digits elsewhere.
IsCanonical(s) ==
    /\ Len(s) = 36
    /\ \A i \in 1..36 :
          IF i \in {9, 14, 19, 24} THEN s[i] = "-" ELSE s[i] \in HexClass

\* The sum of the counts of a scope -> count mapping.
RECURSIVE SumOver(_, _)
SumOver(f, S) ==
    IF S = {} THEN 0
    ELSE LET x == CHOOSE y \in S : TRUE IN f[x] + SumOver(f, S \ {x})
SumCounts(f) == SumOver(f, DOMAIN f)

\* C1: after a confirmed purge with no other writer, no id left in the
\* memories table is rejected by guid_pattern.
C1_NoInvalidIdAfterPurge ==
    Purged => \A id \in DOMAIN store : GuidPatternMatch(id)

\* C2: a confirmed purge leaves every row whose id guid_pattern matched
\* before the purge in the table, with the same scope and content.
C2_PurgeKeepsValidRecords ==
    Purged => \A id \in DOMAIN store0 :
                 GuidPatternMatch(id) => id \in DOMAIN store /\ store[id] = store0[id]

\* C3: the classifier accepts an id exactly when it is of the 8-4-4-4-12
\* hexadecimal form and nothing else: the GUID side of the partition holds
\* only such ids and the file-path side holds none.
C3_ClassifierIsCanonicalForm ==
    pc = "cr_done" =>
        /\ \A r \in guid_records : IsCanonical(r[1])
        /\ \A r \in path_records : ~IsCanonical(r[1])

\* C4: when the ids guid_pattern rejects in the table are no longer those
\* of the plan, the step after the confirmation fails and deletes nothing.
C4_StalePlanIsRefused ==
    [][(/\ pc = "cl_delete"
        /\ pc' # pc
        /\ {id \in DOMAIN store : ~GuidPatternMatch(id)}
               # {id \in all_ids : ~GuidPatternMatch(id)})
       => (pc' = "cl_error" /\ ~txn_open')]_vars

\* C5: the memories table changes only in the commit that follows a plan
\* with at least one invalid id and an answer of y or Y.
C5_OnlyConfirmedCommitMutates ==
    [][store' # store =>
          (pc = "cl_commit" /\ invalid_count > 0 /\ response \in {<<"y">>, <<"Y">>})]_vars
C5_Witness == pc = "cl_committed" /\ store # store0 /\ response = <<"Y">>

\* C6: the table is always either as it was when the script started or
\* that table with every row the DELETE selects removed; it is as it was
\* while the transaction is open and after a failed DELETE or commit.
C6_PurgeIsAllOrNothing ==
    /\ store = store0 \/ store = AfterDelete(store0)
    /\ pc \in {"cl_commit", "cl_error"} => store = store0
    /\ Purged => store = AfterDelete(store0)
C6_Witness ==
    /\ pc = "cl_error"
    /\ Cardinality(DOMAIN store0 \ DOMAIN AfterDelete(store0)) >= 2

\* C7: the counts by scope sum to the number of rows and every row falls
\* under exactly one scope, for the table in every state and for the counts
\* the inspection and the cleanup print.
C7_ScopeCountsSumToTotal ==
    /\ SumCounts(GroupByScope(store)) = Cardinality(DOMAIN store)
    /\ \A id \in DOMAIN store :
          Cardinality({sc \in DOMAIN GroupByScope(store) : sc = store[id].scope}) = 1
    /\ pc \in {"ins_counted", "ins_sampling", "ins_done"} =>
          SumCounts(scope_counts) = Cardinality(DOMAIN store)
    /\ pc = "cl_done" => SumCounts(remaining) = Cardinality(DOMAIN store)
C7_Witness ==
    /\ pc = "cl_done"
    /\ store # store0
    /\ Cardinality(DOMAIN store) >= 1
    /\ SumCounts(remaining) = Cardinality(DOMAIN store)

\* A payload that json.loads rejects or that is not a JSON object.
NotAnObject(json_data) ==
    LET r == JsonLoads(json_data) IN ~r.ok \/ r.val.t # "obj"

\* C8: for every sample row whose payload is malformed or not an object,
\* no field name is printed and the malformed outcome is reported.
C8_MalformedPayloadReported ==
    \A k \in 1..Len(shown) :
        NotAnObject(shown[k].json_data) =>
            shown[k].names = <<>> /\ shown[k].failed

\* C9: once the scan is over, every id in more than one row has a duplicate
\* line, the scope of each of its rows appears in one of its lines, an id
\* in one row has no line, the rows read are the backup's rows, and the
\* total printed is the number of distinct ids.
C9_DuplicatesReported ==
    pc = "dup_done" =>
        LET ids == {fetched[k][1] : k \in 1..Len(fetched)}
            Occ(id) == {k \in 1..Len(fetched) : fetched[k][1] = id}
            Lines(id) == {n \in 1..Len(dup_lines) : dup_lines[n].id = id}
        IN /\ \A id \in ids :
                 /\ Cardinality(Occ(id)) > 1 =>
                       /\ Lines(id) # {}
                       /\ \A k \in Occ(id) : \E n \in Lines(id) :
                             fetched[k][2] \in {dup_lines[n].prev, dup_lines[n].scope}
                 /\ Cardinality(Occ(id)) = 1 => Lines(id) = {}
           /\ \A n \in 1..Len(dup_lines) : dup_lines[n].id \in ids
           /\ fetched = backup_rows
           /\ unique_total = Cardinality(ids)
C9_Witness ==
    /\ pc = "dup_done"
    /\ Len(dup_lines) = 2
    /\ dup_lines[1].id = dup_lines[2].id
    /\ dup_lines[1].prev # dup_lines[1].scope
    /\ unique_total = 1

\* C10: with no other writer, the row count of a confirmed purge is the
\* number of ids the plan counted as invalid.
C10_DeletedCountEqualsPlanned ==
    Purged => rowcount = invalid_count

====
